---- MODULE Spec2Model ----
(***************************************************************************)
(* Model of the Mattermost API client of mattermost-tldr                   *)
(* (src/src/mattermost_tldr/client.py).                                    *)
(*                                                                         *)
(* Three parts of MattermostClient are modelled, each with a specification *)
(* of its own over the same variables:                                     *)
(*   SpecPosts     get_posts_in_range against a paged post endpoint        *)
(*   SpecChannels  get_all_channels / get_direct_channels                  *)
(*   SpecUsers     get_username and its user-id -> username cache          *)
(* and the run of the command line tool (src/src/mattermost_tldr/cli.py,   *)
(* main) with the summarizer (src/src/mattermost_tldr/summary.py):         *)
(*   SpecWindow    the run over every date selector, few channels          *)
(*   SpecMain      the run over few date selectors, every channel source   *)
(***************************************************************************)
EXTENDS Integers, Sequences, FiniteSets, TLC

(***************************************************************************)
(* Bounds of the model.                                                    *)
(***************************************************************************)
\* Page size requested from the server.  client.py:132 sets per_page = 200;
\* the model runs the same loop with a small page so that histories of a
\* few posts span several pages.
per_page == 2
\* Longest channel history served by the cursor-honouring endpoint.
MaxPosts == 5
\* Largest create_at (and window edge); timestamps are 0..MaxTs.
MaxTs == 2
\* Requests explored against an arbitrary endpoint (which may keep the
\* loop running for ever).
MaxRequests == 2
\* Longest membership list the server returns.
MaxChannels == 3
\* Largest last_post_at of a channel.
MaxLastPost == 1
\* get_username calls explored on one client.
MaxCalls == 4

\* Python's None, for the cursor (post ids are non-empty strings, hence
\* truthy; the model numbers them from 1) and for oldest_ts_in_batch.
None == 0
NoTs == -1

\* The user ids and usernames the model draws from, and the marker of an
\* id the cache has no entry for.
UserIds == {"u1", "u2"}
UserNames == {"alice", "bob"}
NotCached == "<absent>"

VARIABLES
    \* ---- remote post endpoint --------------------------------------
    history,     \* create_at of the channel's posts, newest first; post i has id i
    honest,      \* TRUE: endpoint serves history newest-first and honours `before`
    \* ---- get_posts_in_range ----------------------------------------
    after_ts,    \* window, inclusive
    before_ts,
    pc,          \* "loop" | "done" | "raised"
    posts,       \* local `posts`
    before_id,   \* local `before_id`
    requests,    \* number of page requests issued so far
    last_order,  \* `order` of the page received last
    last_cursor, \* `before` parameter of the request issued last
    result,      \* value returned
    \* ---- get_all_channels / get_direct_channels ---------------------
    ch_op,       \* operation called last: "none" | "all" | "direct"
    ch_members,  \* membership list the server answered with
    ch_result,   \* list returned
    \* ---- get_username ------------------------------------------------
    user_cache,  \* self._user_cache: user id -> username, NotCached if absent
    u_calls,     \* get_username calls made, per user id
    u_lookups,   \* remote user lookups issued, per user id
    u_raised,    \* remote user lookups that ended in an exception the call let through
    u_first,     \* value the first call that returned gave, per user id
    u_last,      \* the call made last: user id, lookup outcome, how it ended, value
    \* ---- main: inputs of the run ------------------------------------
    m_sel,       \* date selector of the command line: [kind, n]
    m_today,     \* date.today(), a day number
    m_tod,       \* milliseconds since midnight UTC of datetime.now()
    m_raw_from,  \* config["date_from"]: a day, AbsentDate or BadDate
    m_raw_to,    \* config["date_to"]: a day, AbsentDate or BadDate
    m_limit,     \* longest channel list / name list this run meets
    m_digest_only, \* args.digest_only
    \* ---- main: locals -----------------------------------------------
    m_pc,        \* step of main the run is at, "exited", "crashed" or "done"
    m_exit,      \* code given to sys.exit, NoCode while running
    m_net,       \* requests sent to the Mattermost server so far
    m_digest,    \* args.digest: "none", "existing" or "missing" file
    m_missing,   \* what the configuration read lacks (server_url, token)
    m_server_url,
    m_token,
    m_use_all,
    m_use_direct,
    m_channels,  \* number of channel names configured (names are 1..n)
    m_date_from,
    m_date_to,
    m_after,     \* after_ts
    m_before,    \* before_ts
    m_label,     \* period_label
    m_team_id,
    m_fc,        \* find_channel call made last: answer of the server, how it ended
    m_i,         \* configured channel names handled so far (cli.py:720)
    m_src,       \* what each source of targets got from the server
    m_targets,   \* export_targets
    m_fetched,   \* outcome of get_posts_in_range for the targets handled so far
    m_markdowns, \* all_markdowns
    m_written,   \* files written by the run, in order
    m_ai,        \* the run_ai_summary call: backend, temp file, exit code
    \* ---- digest text, line by line ---------------------------------
    d_renders,   \* renders of render_channel_markdown, each a sequence of lines
    d_digest,    \* the digest joined from them, as lines
    d_segments,  \* segments the digest splits into on the separator, NotSplit before
    r_posts,     \* posts of a channel handed to render_channel_markdown
    r_out        \* what it rendered of them: day headings and post entries

postVars == <<history, honest, after_ts, before_ts, pc, posts, before_id,
              requests, last_order, last_cursor, result>>

chanVars == <<ch_op, ch_members, ch_result>>

userVars == <<user_cache, u_calls, u_lookups, u_raised, u_first, u_last>>

mainVars == <<m_sel, m_today, m_tod, m_raw_from, m_raw_to, m_limit,
              m_digest_only, m_pc,
              m_exit, m_net, m_digest, m_missing, m_server_url, m_token, m_use_all,
              m_use_direct, m_channels, m_date_from, m_date_to, m_after,
              m_before, m_label, m_team_id, m_fc, m_i, m_src, m_targets, m_fetched,
              m_markdowns, m_written, m_ai>>

digestVars == <<d_renders, d_digest, d_segments, r_posts, r_out>>

vars == <<postVars, chanVars, userVars, mainVars, digestVars>>

(***************************************************************************)
(* Helpers on sequences.                                                   *)
(***************************************************************************)
Range(s) == {s[i] : i \in 1..Len(s)}

Min(a, b) == IF a < b THEN a ELSE b

\* Non-increasing sequences of timestamps of length <= n: a channel
\* history as the server lists it (newest first).
Histories(n) ==
    UNION {{h \in [1..k -> 0..MaxTs] :
              \A i \in 1..k, j \in 1..k : i < j => h[i] >= h[j]} : k \in 0..n}

(***************************************************************************)
(* The remote endpoint  GET /channels/{id}/posts.                          *)
(***************************************************************************)
\* The post behind an id, as the `posts` map of a response holds it.
Post(id) == [id |-> id, create_at |-> history[id]]

\* Ids the `posts` map of a response has an entry for.
KnownIds == 1..Len(history)

\* An id listed in `order` without an entry in `posts`.
GhostId == Len(history) + 1

\* Page of an endpoint that honours per_page and `before`: the posts
\* strictly older than the cursor, newest first.
HonestOrder(cursor) ==
    LET first == cursor + 1
        last  == Min(cursor + per_page, Len(history))
    IN  [i \in 1..(IF last >= first THEN last - first + 1 ELSE 0) |-> first + i - 1]

\* The posts an arbitrary endpoint draws its pages from: one post for
\* every timestamp.
ArbitraryPosts == [i \in 1..(MaxTs + 1) |-> MaxTs + 1 - i]

\* Pages an arbitrary endpoint may answer with: any list of up to per_page
\* ids, in any order, with repetitions and with ids the map lacks.
ArbitraryOrders ==
    UNION {[1..k -> KnownIds \cup {GhostId}] : k \in 0..per_page}

(***************************************************************************)
(* get_posts_in_range  (client.py:119-166)                                 *)
(***************************************************************************)
\* client.py:155
InWindow_noUpper(ts, a, b) == a <= ts

InWindow(ts, a, b) == a <= ts /\ ts <= b

\* client.py:148-151: the posts of a page, ids missing from the map skipped.
PagePosts(order) ==
    LET present == SelectSeq(order, LAMBDA id : id \in KnownIds)
    IN  [i \in 1..Len(present) |-> Post(present[i])]

\* client.py:146, 152-154: the smallest create_at of the page's posts,
\* None when the page has no post.
OldestTs(pp) ==
    IF pp = <<>> THEN NoTs
    ELSE CHOOSE ts \in {pp[i].create_at : i \in 1..Len(pp)} :
             \A i \in 1..Len(pp) : ts <= pp[i].create_at

\* client.py:155-156
Collected(pp, a, b) == SelectSeq(pp, LAMBDA p : InWindow(p.create_at, a, b))

\* client.py:158
PassedLowerBound_le(oldest, a) == oldest # NoTs /\ oldest <= a

PassedLowerBound(oldest, a) == oldest # NoTs /\ oldest < a

\* client.py:161
ShortPage_never(order) == FALSE

ShortPage(order) == Len(order) < per_page

\* client.py:135-137
RequestCursor_dropped(cursor) == None

RequestCursor(cursor) == IF cursor # None THEN cursor ELSE None

\* client.py:164
NextCursor_first(order) == order[1]

NextCursor(order) == order[Len(order)]

\* client.py:166: sorted(posts, key=create_at).  Python's sort is stable:
\* a post goes after the posts with a smaller key and after the posts with
\* the same key that preceded it in the input.
SortedPosition(s, i) ==
    1 + Cardinality({j \in 1..Len(s) :
                       \/ s[j].create_at < s[i].create_at
                       \/ (s[j].create_at = s[i].create_at /\ j < i)})

SortByCreateAt_unsorted(s) == s

SortByCreateAt(s) ==
    [k \in 1..Len(s) |-> s[CHOOSE i \in 1..Len(s) : SortedPosition(s, i) = k]]

\* Markers of main's locals: no exit code yet, no date, no team.
NoCode == -1
AbsentDate == -1
BadDate == -2
NoAi == [backend |-> "none", path |-> <<>>, runs |-> 0, tmp |-> "none",
         ended |-> "none", code |-> NoCode]
NoCall == [answer |-> [kind |-> "none", status |-> 0], ended |-> "none"]

\* What the sources of targets got: the last_post_at of the channels of
\* all_chans and of dm_channels (as distances from after_ts) and, for each
\* configured name handled, how find_channel ended and what the search
\* answered.
NoSources == [all |-> <<>>, named |-> <<>>, dm |-> <<>>]

\* The locals of main before its first statement.
MainLocalsUnset ==
    /\ m_pc = "start"
    /\ m_exit = NoCode
    /\ m_net = 0
    /\ m_digest = "none"
    /\ m_missing = {}
    /\ m_server_url = <<>>
    /\ m_token = ""
    /\ m_use_all = FALSE
    /\ m_use_direct = FALSE
    /\ m_channels = 0
    /\ m_date_from = AbsentDate
    /\ m_date_to = AbsentDate
    /\ m_after = 0
    /\ m_before = 0
    /\ m_label = <<>>
    /\ m_team_id = None
    /\ m_fc = NoCall
    /\ m_i = 0
    /\ m_src = NoSources
    /\ m_targets = <<>>
    /\ m_fetched = <<>>
    /\ m_markdowns = <<>>
    /\ m_written = <<>>
    /\ m_ai = NoAi

\* No digest text is being built.
NotSplit == 0
DigestIdle ==
    /\ d_renders = <<>>
    /\ d_digest = <<>>
    /\ d_segments = NotSplit
    /\ r_posts = <<>>
    /\ r_out = <<>>

\* main is not run.
MainNotRun ==
    /\ MainLocalsUnset
    /\ m_sel = [kind |-> "none", n |-> 0]
    /\ m_today = 0
    /\ m_tod = 0
    /\ m_raw_from = AbsentDate
    /\ m_raw_to = AbsentDate
    /\ m_limit = 0
    /\ m_digest_only = FALSE

MainIdle == DigestIdle /\ MainNotRun

\* A client on which get_username has not been called (client.py:24).
UsersIdle ==
    /\ user_cache = [u \in UserIds |-> NotCached]
    /\ u_calls = [u \in UserIds |-> 0]
    /\ u_lookups = [u \in UserIds |-> 0]
    /\ u_raised = [u \in UserIds |-> 0]
    /\ u_first = [u \in UserIds |-> NotCached]
    /\ u_last = [uid |-> NotCached, lookup |-> "none", ended |-> "none",
                 value |-> NotCached]

\* No channel listing has been asked for.
ChannelsIdle ==
    /\ ch_op = "none"
    /\ ch_members = <<>>
    /\ ch_result = <<>>

\* No get_posts_in_range call is in progress.
PostsIdle ==
    /\ honest = TRUE
    /\ history = <<>>
    /\ after_ts = 0
    /\ before_ts = 0
    /\ pc = "idle"
    /\ posts = <<>>
    /\ before_id = None
    /\ requests = 0
    /\ last_order = <<>>
    /\ last_cursor = None
    /\ result = <<>>

InitPosts ==
    /\ ChannelsIdle
    /\ UsersIdle
    /\ MainIdle
    /\ honest \in BOOLEAN
    /\ history \in (IF honest THEN Histories(MaxPosts) ELSE {ArbitraryPosts})
    /\ after_ts \in 0..MaxTs
    /\ before_ts \in after_ts..MaxTs
    /\ pc = "loop"
    /\ posts = <<>>
    /\ before_id = None
    /\ requests = 0
    /\ last_order = <<>>
    /\ last_cursor = None
    /\ result = <<>>

\* One iteration of the loop (client.py:134-164) on the page `order`; an
\* iteration that breaks goes on to the return statement (client.py:166).
ProcessPage(order) ==
    LET pp        == PagePosts(order)
        oldest    == OldestTs(pp)
        collected == IF order = <<>>
                     THEN posts
                     ELSE posts \o Collected(pp, after_ts, before_ts)
        stop      == \/ order = <<>>
                     \/ PassedLowerBound(oldest, after_ts)
                     \/ ShortPage(order)
    IN  /\ requests' = requests + 1
        /\ last_order' = order
        /\ last_cursor' = RequestCursor(before_id)
        /\ posts' = collected
        /\ IF stop
           THEN /\ pc' = "done"
                /\ result' = SortByCreateAt(collected)
                /\ UNCHANGED before_id
           ELSE /\ pc' = "loop"
                /\ before_id' = NextCursor(order)
                /\ UNCHANGED result
        /\ UNCHANGED <<history, honest, after_ts, before_ts>>
        /\ UNCHANGED <<chanVars, userVars, mainVars, digestVars>>

\* Guard that keeps the explored runs finite; an endpoint that honours
\* the cursor never needs more than MaxPosts + 1 requests.
MayRequest == requests < (IF honest THEN MaxPosts + 1 ELSE MaxRequests)

FetchPageHonest ==
    /\ pc = "loop"
    /\ honest
    /\ MayRequest
    /\ ProcessPage(HonestOrder(RequestCursor(before_id)))

FetchPageArbitrary ==
    /\ pc = "loop"
    /\ ~honest
    /\ MayRequest
    /\ \E order \in ArbitraryOrders : ProcessPage(order)

\* _get raises (client.py:26-29): the exception leaves get_posts_in_range.
FetchRaises ==
    /\ pc = "loop"
    /\ MayRequest
    /\ pc' = "raised"
    /\ requests' = requests + 1
    /\ last_cursor' = RequestCursor(before_id)
    /\ UNCHANGED <<history, honest, after_ts, before_ts, posts, before_id,
                   last_order, result>>
    /\ UNCHANGED <<chanVars, userVars, mainVars, digestVars>>

NextPosts ==
    \/ FetchPageHonest
    \/ FetchPageArbitrary
    \/ FetchRaises

SpecPosts == InitPosts /\ [][NextPosts]_vars

\* The call against an endpoint that serves the history newest-first and
\* honours the cursor.  The loop is sequential code: it keeps running
\* until it returns or raises.
InitPostsHonest == InitPosts /\ honest

NextPostsHonest ==
    \/ FetchPageHonest
    \/ FetchRaises

SpecPostsHonest ==
    InitPostsHonest /\ [][NextPostsHonest]_vars /\ WF_vars(NextPostsHonest)

(***************************************************************************)
(* Properties of get_posts_in_range.                                       *)
(***************************************************************************)
Returned == pc = "done"

\* Ids of the page received last that the response's map has a post for.
LastPageKnown == {id \in Range(last_order) : id \in KnownIds}

\* C1: for every window with after_ts <= before_ts and every sequence of
\* pages the endpoint returns, every post of the returned list has
\* after_ts <= create_at <= before_ts.
C1_ResultInsideWindow ==
    Returned =>
        \A i \in 1..Len(result) :
            /\ after_ts <= result[i].create_at
            /\ result[i].create_at <= before_ts

\* A returned, non-empty list whose last page also held a post newer than
\* the window and a post older than it.
C1_Witness ==
    /\ Returned
    /\ result # <<>>
    /\ \E id \in LastPageKnown : history[id] > before_ts
    /\ \E id \in LastPageKnown : history[id] < after_ts

\* C2: against an endpoint that serves a finite history newest-first in
\* pages and honours the cursor, every post of the channel whose create_at
\* lies in [after_ts, before_ts], edges included, is in the returned list.
C2_AllWindowPostsReturned ==
    (Returned /\ honest) =>
        \A id \in KnownIds :
            (after_ts <= history[id] /\ history[id] <= before_ts)
                => Post(id) \in Range(result)

\* Several pages were fetched, a page boundary falls between two posts
\* stamped exactly after_ts, and posts on both edges were returned.
C2_Witness ==
    /\ Returned /\ honest
    /\ requests >= 2
    /\ Len(history) > per_page
    /\ history[per_page] = after_ts
    /\ history[per_page + 1] = after_ts
    /\ Post(per_page + 1) \in Range(result)
    /\ \E id \in KnownIds : history[id] = before_ts /\ Post(id) \in Range(result)
    /\ after_ts < before_ts

\* C3: the returned list is sorted ascending by create_at.
C3_ResultSortedAscending ==
    Returned =>
        \A i \in 1..Len(result), j \in 1..Len(result) :
            i < j => result[i].create_at <= result[j].create_at

\* Posts collected over two pages, not in ascending order, were returned.
C3_Witness ==
    /\ Returned
    /\ requests >= 2
    /\ \E i \in 1..Len(posts), j \in 1..Len(posts) :
           i < j /\ posts[i].create_at > posts[j].create_at
    /\ Len(result) = Len(posts)

\* C4 as stated: no post id appears more than once in the returned list.
C4_NoDuplicateIds ==
    Returned =>
        \A i \in 1..Len(result), j \in 1..Len(result) :
            i # j => result[i].id # result[j].id

\* C4 amended: no post id appears more than once in the returned list when
\* the endpoint serves a fixed history of distinct ids newest-first and
\* honours the cursor.
C4_NoDuplicateIdsHonest ==
    (Returned /\ honest) =>
        \A i \in 1..Len(result), j \in 1..Len(result) :
            i # j => result[i].id # result[j].id

\* The returned list holds posts of more than one page.
C4_Witness ==
    /\ Returned /\ honest
    /\ requests >= 2
    /\ Len(result) > per_page

\* A page after which the loop has to stop: fewer than per_page ids (an
\* empty page included) or a post older than after_ts.
StopPageSeen ==
    /\ requests > 0
    /\ pc # "raised"
    /\ \/ Len(last_order) < per_page
       \/ \E id \in LastPageKnown : history[id] < after_ts

\* C5: no request is issued after a page with fewer than per_page ids or a
\* page whose minimum create_at is below after_ts has been received.
C5_NoRequestAfterStopPage ==
    [][StopPageSeen => requests' = requests]_vars

\* The loop went on after a first page and stopped on a full page that
\* reached below the window.
C5_Witness ==
    /\ Returned
    /\ requests >= 2
    /\ Len(last_order) = per_page
    /\ \E id \in LastPageKnown : history[id] < after_ts

Terminated == pc \in {"done", "raised"}

\* C6: every iteration either stops or moves the cursor to a strictly
\* older post, and the call eventually returns (or raises) for every
\* channel history.
C6_Terminates ==
    /\ [][(pc = "loop" /\ pc' = "loop") => before_id' > before_id]_vars
    /\ <>Terminated

\* A call that went round the loop three times and returned.
C6_Witness ==
    /\ Returned /\ honest
    /\ requests >= 3

(***************************************************************************)
(* get_all_channels / get_direct_channels  (client.py:57-98)               *)
(***************************************************************************)
\* A field a record lacks (dict.get returns its default for it).
NoField == "<absent>"

\* Channel types the server may list: open, private, direct, group, one
\* the client does not know, and a channel record without `type`.
ChannelTypes == {"O", "P", "D", "G", "X", NoField}

\* last_post_at of a listed channel; NoTs for a record without the field.
LastPosts == (0..MaxLastPost) \cup {NoTs}

\* A membership list the server may answer with, from the types and
\* last_post_at values of its channels; channel i has id i.
MemberList(f) ==
    [i \in DOMAIN f |-> [id |-> i, type |-> f[i][1], last_post_at |-> f[i][2]]]

\* client.py:57-72: the membership list of the given team, else of the
\* first team of the team list, else nothing.
FetchMemberChannels(team_id, teams, served) ==
    IF team_id # None THEN served
    ELSE IF teams = <<>> THEN <<>>
    ELSE served

\* client.py:82
IsDirect(ch) == ch.type \in {"D", "G"}

\* client.py:94
IsOpenOrPrivate_any(ch) == ch.type \in {"O", "P", "G"}

IsOpenOrPrivate(ch) == ch.type \in {"O", "P"}

\* client.py:85, 97: key=lambda ch: ch.get("last_post_at", 0)
LastPostAt(ch) == IF ch.last_post_at = NoTs THEN 0 ELSE ch.last_post_at

\* client.py:84-86, 96-98: sorted(channels, key=..., reverse=True).  The
\* sort is stable also when reversed: a channel goes after the channels
\* with a larger key and after those with the same key that preceded it.
SortedPositionDesc(s, i) ==
    1 + Cardinality({j \in 1..Len(s) :
                       \/ LastPostAt(s[j]) > LastPostAt(s[i])
                       \/ (LastPostAt(s[j]) = LastPostAt(s[i]) /\ j < i)})

SortByLastPostDesc_asc(s) ==
    [k \in 1..Len(s) |-> s[CHOOSE i \in 1..Len(s) :
                               SortedPositionDesc(s, i) = Len(s) + 1 - k]]

SortByLastPostDesc(s) ==
    [k \in 1..Len(s) |-> s[CHOOSE i \in 1..Len(s) : SortedPositionDesc(s, i) = k]]

\* client.py:88-98
get_all_channels ==
    /\ ch_op = "none"
    /\ \E team_id \in {None, 1}, teams \in {<<>>, <<1>>}, k \in 0..MaxChannels :
         \E f \in [1..k -> ChannelTypes \X LastPosts] :
             LET members == FetchMemberChannels(team_id, teams, MemberList(f))
             IN  /\ ch_members' = members
                 /\ ch_result' = SortByLastPostDesc(SelectSeq(members, IsOpenOrPrivate))
    /\ ch_op' = "all"
    /\ UNCHANGED <<postVars, userVars, mainVars, digestVars>>

\* client.py:74-86
get_direct_channels ==
    /\ ch_op = "none"
    /\ \E team_id \in {None, 1}, teams \in {<<>>, <<1>>}, k \in 0..MaxChannels :
         \E f \in [1..k -> ChannelTypes \X LastPosts] :
             LET members == FetchMemberChannels(team_id, teams, MemberList(f))
             IN  /\ ch_members' = members
                 /\ ch_result' = SortByLastPostDesc(SelectSeq(members, IsDirect))
    /\ ch_op' = "direct"
    /\ UNCHANGED <<postVars, userVars, mainVars, digestVars>>

InitChannels == PostsIdle /\ ChannelsIdle /\ UsersIdle /\ MainIdle

NextChannels ==
    \/ get_all_channels
    \/ get_direct_channels

SpecChannels == InitChannels /\ [][NextChannels]_vars

(***************************************************************************)
(* Properties of the channel listings.                                     *)
(***************************************************************************)
\* C7: get_all_channels returns exactly the member channels of type O or
\* P and get_direct_channels exactly those of type D or G: none of another
\* type appears, none of the matching type is lost, none is repeated.
C7_ChannelFiltersExact ==
    /\ ch_op = "all" =>
         /\ Range(ch_result) = {ch \in Range(ch_members) : ch.type = "O" \/ ch.type = "P"}
         /\ Len(ch_result) = Cardinality(Range(ch_result))
    /\ ch_op = "direct" =>
         /\ Range(ch_result) = {ch \in Range(ch_members) : ch.type = "D" \/ ch.type = "G"}
         /\ Len(ch_result) = Cardinality(Range(ch_result))

\* get_all_channels kept an open and a private channel out of a list that
\* also held a group channel.
C7_Witness ==
    /\ ch_op = "all"
    /\ Len(ch_members) = 3
    /\ Len(ch_result) = 2
    /\ \E ch \in Range(ch_members) : ch.type = "G"
    /\ \E ch \in Range(ch_result) : ch.type = "O"
    /\ \E ch \in Range(ch_result) : ch.type = "P"

KeyOfResult(i) ==
    IF ch_result[i].last_post_at = NoTs THEN 0 ELSE ch_result[i].last_post_at

\* C8 as stated: the returned lists are sorted strictly by last_post_at
\* descending (a channel without last_post_at counts as 0).
C8_StrictlyDescending ==
    ch_op # "none" =>
        \A i \in 1..Len(ch_result), j \in 1..Len(ch_result) :
            i < j => KeyOfResult(i) > KeyOfResult(j)

\* C8 amended: the returned lists are sorted by last_post_at descending,
\* channels with equal last_post_at (a missing one counting as 0) next to
\* each other.
C8_Descending ==
    ch_op # "none" =>
        \A i \in 1..Len(ch_result), j \in 1..Len(ch_result) :
            i < j => KeyOfResult(i) >= KeyOfResult(j)

\* A listing of direct channels that the server listed in ascending order,
\* one of them without last_post_at.
C8_Witness ==
    /\ ch_op = "direct"
    /\ Len(ch_result) >= 2
    /\ \E i \in 1..Len(ch_members), j \in 1..Len(ch_members) :
          /\ i < j
          /\ ch_members[i] \in Range(ch_result)
          /\ ch_members[j] \in Range(ch_result)
          /\ ch_members[i].last_post_at = NoTs
          /\ ch_members[j].last_post_at > 0

(***************************************************************************)
(* get_username  (client.py:110-117) over _get (client.py:26-29)           *)
(***************************************************************************)
\* What _get("/users/{id}") may end in: a user record, with or without a
\* `username` (client.py:29), the HTTPError of raise_for_status
\* (client.py:28), or an exception of another class raised by the request
\* itself or by decoding the body (client.py:27, 29), such as
\* requests.ConnectionError.
UserLookups ==
    {[kind |-> "ok", username |-> n] : n \in UserNames \cup {NoField}}
        \cup {[kind |-> "HTTPError", username |-> NoField],
              [kind |-> "OtherError", username |-> NoField]}

\* client.py:111
IsCached_never(cache, uid) == FALSE

IsCached(cache, uid) == cache[uid] # NotCached

\* client.py:114: user.get("username", user_id)
UsernameOf(user, uid) == IF user.username = NoField THEN uid ELSE user.username

\* client.py:115: except requests.HTTPError
Catches_nothing(kind) == FALSE

Catches(kind) == kind = "HTTPError"

\* client.py:116
FallbackName(uid) == uid

TotalCalls == u_calls["u1"] + u_calls["u2"]

\* client.py:110-117, the id already cached: no lookup.
get_username_cached ==
    /\ TotalCalls < MaxCalls
    /\ \E uid \in UserIds :
         /\ IsCached(user_cache, uid)
         /\ u_calls' = [u_calls EXCEPT ![uid] = @ + 1]
         /\ u_last' = [uid |-> uid, lookup |-> "none", ended |-> "returned",
                       value |-> user_cache[uid]]
         /\ u_first' = [u_first EXCEPT ![uid] =
                           IF @ = NotCached THEN user_cache[uid] ELSE @]
    /\ UNCHANGED <<user_cache, u_lookups, u_raised>>
    /\ UNCHANGED <<postVars, chanVars, mainVars, digestVars>>

\* client.py:110-117, the id not cached: one lookup, whose answer or
\* HTTPError fills the cache; any other exception leaves the call.
get_username_lookup ==
    /\ TotalCalls < MaxCalls
    /\ \E uid \in UserIds, user \in UserLookups :
         /\ ~IsCached(user_cache, uid)
         /\ u_calls' = [u_calls EXCEPT ![uid] = @ + 1]
         /\ u_lookups' = [u_lookups EXCEPT ![uid] = @ + 1]
         /\ IF user.kind = "ok" \/ Catches(user.kind)
            THEN LET name == IF user.kind = "ok" THEN UsernameOf(user, uid)
                             ELSE FallbackName(uid)
                 IN  /\ user_cache' = [user_cache EXCEPT ![uid] = name]
                     /\ u_last' = [uid |-> uid, lookup |-> user.kind,
                                   ended |-> "returned", value |-> name]
                     /\ u_first' = [u_first EXCEPT ![uid] =
                                       IF @ = NotCached THEN name ELSE @]
                     /\ UNCHANGED u_raised
            ELSE /\ u_raised' = [u_raised EXCEPT ![uid] = @ + 1]
                 /\ u_last' = [uid |-> uid, lookup |-> user.kind,
                               ended |-> "raised", value |-> NotCached]
                 /\ UNCHANGED <<user_cache, u_first>>
    /\ UNCHANGED <<postVars, chanVars, mainVars, digestVars>>

InitUsers == PostsIdle /\ ChannelsIdle /\ UsersIdle /\ MainIdle

NextUsers ==
    \/ get_username_cached
    \/ get_username_lookup

SpecUsers == InitUsers /\ [][NextUsers]_vars

(***************************************************************************)
(* Properties of get_username.                                             *)
(***************************************************************************)
LookupFailed == u_last.lookup \in {"HTTPError", "OtherError"}

\* C9 as stated: get_username never raises; whenever the remote lookup
\* fails it caches the raw user id as the username and returns it.
C9_NeverRaises ==
    /\ u_last.ended # "raised"
    /\ LookupFailed =>
         /\ u_last.ended = "returned"
         /\ u_last.value = u_last.uid
         /\ user_cache[u_last.uid] = u_last.uid

\* C9 amended: whenever the remote lookup fails with an HTTP error status
\* get_username caches the raw user id and returns it, and it raises only
\* when the request fails in another way (no connection, undecodable
\* body), in which case nothing is cached.
C9_HttpErrorFallsBack ==
    /\ u_last.lookup = "HTTPError" =>
         /\ u_last.ended = "returned"
         /\ u_last.value = u_last.uid
         /\ user_cache[u_last.uid] = u_last.uid
    /\ u_last.ended = "raised" => u_last.lookup = "OtherError"

\* A call whose lookup failed with an HTTP error has returned.
C9_Witness ==
    /\ u_last.lookup = "HTTPError"
    /\ u_last.ended = "returned"
    /\ u_calls[u_last.uid] = 1

\* C10 as stated: at most one remote lookup is issued per user id, whether
\* the first lookup succeeded or failed, and every later call returns the
\* value the first one returned.
C10_AtMostOneLookup ==
    \A u \in UserIds :
        /\ u_lookups[u] <= 1
        /\ (u_last.uid = u /\ u_last.ended = "returned") => u_last.value = u_first[u]

\* C10 amended: at most one remote lookup per user id runs to an answer or
\* an HTTP error; from then on the id is cached, no further lookup is
\* issued for it and every later call returns the value of that call.  A
\* lookup that raises another exception caches nothing and is repeated by
\* the next call.
C10_OneLookupOnceCached ==
    /\ [](\A u \in UserIds :
            /\ u_lookups[u] - u_raised[u] <= 1
            /\ (u_last.uid = u /\ u_last.ended = "returned")
                   => u_last.value = u_first[u])
    /\ [][\A u \in UserIds :
            user_cache[u] # NotCached =>
                /\ u_lookups'[u] = u_lookups[u]
                /\ user_cache'[u] = user_cache[u]]_vars

\* Three calls for one id, the first of which fell back to the raw id
\* after an HTTP error, with a single lookup.
C10_Witness ==
    \E u \in UserIds :
        /\ u_calls[u] >= 3
        /\ u_lookups[u] = 1
        /\ user_cache[u] = u
        /\ u_last = [uid |-> u, lookup |-> "none", ended |-> "returned", value |-> u]


(***************************************************************************)
(* main (cli.py:584-806): one run of the command line tool.               *)
(* Dates are day numbers counted from 1970-01-01, instants are             *)
(* milliseconds since the epoch in UTC, and date.today() is the UTC date.  *)
(***************************************************************************)

MsPerHour == 3600000
MsPerDay == 24 * MsPerHour
LastSecondOfDay == 23 * MsPerHour + 59 * 60000 + 59 * 1000

\* Bounds of the inputs of a run.
FirstDay == 10
MaxDays == 2
HourStep == 15
MaxHourSteps == 2
MaxTargets == 2

Todays == FirstDay .. FirstDay + 6
TimesOfDay == {0, 12 * MsPerHour, MsPerDay - 1}
DayCounts == -1 .. MaxDays
HourCounts == {k * HourStep : k \in -MaxHourSteps .. MaxHourSteps}
ConfigDates == {AbsentDate, BadDate} \cup (FirstDay - 1 .. FirstDay + 1)

FlagKinds == {"today", "yesterday", "this_week", "last_week"}
NoRun == [kind |-> "none", n |-> 0]
Selectors ==
    [kind : FlagKinds \cup {"config"}, n : {0}]
        \cup [kind : {"days"}, n : DayCounts]
        \cup [kind : {"hours"}, n : HourCounts]

\* date.weekday(): Monday is 0; day 0 (1970-01-01) was a Thursday.
weekday(d) == (d + 3) % 7

\* cli.py:106-108, the --days N range starts N - 1 days before today.
DaysStart_nDaysBack(today, n) == today - n
DaysStart(today, n) == today - (n - 1)

\* date_range_from_args (cli.py:88-129): the range, or exit when the config
\* names no date_from or a date does not parse.
date_range_from_args(sel, today, raw_from, raw_to) ==
    CASE sel.kind = "today" -> [exit |-> FALSE, from |-> today, to |-> today]
      [] sel.kind = "yesterday" ->
            [exit |-> FALSE, from |-> today - 1, to |-> today - 1]
      [] sel.kind = "this_week" ->
            [exit |-> FALSE, from |-> today - weekday(today), to |-> today]
      [] sel.kind = "last_week" ->
            [exit |-> FALSE, from |-> today - (weekday(today) + 7),
             to |-> (today - (weekday(today) + 7)) + 6]
      [] sel.kind = "days" ->
            [exit |-> FALSE, from |-> DaysStart(today, sel.n), to |-> today]
      [] OTHER ->
            LET to == IF raw_to = AbsentDate THEN today ELSE raw_to
            IN  IF raw_from = AbsentDate \/ raw_from = BadDate \/ to = BadDate
                THEN [exit |-> TRUE, from |-> AbsentDate, to |-> AbsentDate]
                ELSE [exit |-> FALSE, from |-> raw_from, to |-> to]

\* The date an instant falls on (datetime.date() in UTC).
DateOf(ms) == ms \div MsPerDay

\* cli.py:655-675, midnight of a day and its 23:59:59.
DayStartMs(d) == d * MsPerDay
DayEndMs(d) == d * MsPerDay + LastSecondOfDay

\* cli.py:641 and 676-680.
period_label(date_from, date_to) ==
    IF date_from # date_to THEN <<"range", date_from, date_to>>
    ELSE <<"date", date_from>>
HoursLabel(h) == <<"last_h", h>>

\* sys.exit(code) from main.
Exit(code) ==
    /\ m_pc' = "exited"
    /\ m_exit' = code

\* What the run was started with stays as it is.
InputsUnchanged ==
    UNCHANGED <<m_sel, m_today, m_tod, m_raw_from, m_raw_to, m_limit, m_digest_only>>

\* cli.py:586-601, the arguments; with --digest FILE the file has to exist
\* and the run goes straight to the summary.
ParseArgs ==
    /\ m_pc = "start"
    /\ \E digest \in {"none", "existing", "missing"} :
        /\ m_digest' = digest
        /\ CASE digest = "none" ->
                    /\ m_pc' = "config"
                    /\ UNCHANGED <<m_exit, m_written>>
             [] digest = "missing" ->
                    /\ Exit(1)
                    /\ UNCHANGED m_written
             [] OTHER ->
                    /\ m_pc' = "summarize"
                    /\ m_written' = <<>>
                    /\ UNCHANGED m_exit
    /\ InputsUnchanged
    /\ UNCHANGED m_src
    /\ UNCHANGED <<m_net, m_missing, m_server_url, m_token, m_use_all, m_use_direct,
                   m_channels, m_date_from, m_date_to, m_after, m_before,
                   m_label, m_team_id, m_fc, m_i, m_targets, m_fetched,
                   m_markdowns, m_ai>>
    /\ UNCHANGED <<postVars, chanVars, userVars, digestVars>>

\* Server URLs as sequences of pieces, "/" being the piece rstrip removes.
RawUrls == {<<>>, <<"/">>, <<"https://mm.example">>, <<"https://mm.example", "/">>}
Placeholder == "your_personal_access_token_here"
Tokens == {"", Placeholder, "tok"}

\* str.rstrip("/") (cli.py:606): the longest prefix that does not end in "/".
rstrip(url) ==
    LET keep == {k \in 0 .. Len(url) : k = 0 \/ url[k] # "/"}
        last == CHOOSE k \in keep : \A j \in keep : j <= k
    IN  SubSeq(url, 1, last)

\* cli.py:615, a token that cannot be used.
TokenMissing_emptyOnly(token) == token = ""
TokenMissing(token) == token = "" \/ token = Placeholder

\* What a configuration lacks, by what the file and the environment hold.
Missing(raw_url, env, cfg) ==
    {x \in {"server_url"} : raw_url = <<>>}
        \cup {x \in {"token"} : (env = "" /\ cfg \in {"", Placeholder})
                                  \/ env = Placeholder}

\* cli.py:604-632, load the configuration and validate it.
ReadConfig ==
    /\ m_pc = "config"
    /\ \E exists \in BOOLEAN, raw_url \in RawUrls, env \in Tokens, cfg \in Tokens,
          all \in BOOLEAN, direct \in BOOLEAN, n \in 0 .. m_limit :
        LET server_url == rstrip(raw_url)
            token == IF env # "" THEN env ELSE cfg
        IN  IF ~exists
            THEN /\ Exit(1)
                 /\ UNCHANGED <<m_missing, m_server_url, m_token, m_use_all,
                                m_use_direct, m_channels>>
            ELSE /\ m_missing' = Missing(raw_url, env, cfg)
                 /\ IF server_url = <<>> \/ TokenMissing(token)
                        \/ (~all /\ ~direct /\ n = 0)
                    THEN /\ Exit(1)
                         /\ UNCHANGED <<m_server_url, m_token, m_use_all,
                                        m_use_direct, m_channels>>
                    ELSE /\ m_pc' = "window"
                         /\ m_server_url' = server_url
                         /\ m_token' = token
                         /\ m_use_all' = all
                         /\ m_use_direct' = direct
                         /\ m_channels' = n
                         /\ UNCHANGED m_exit
    /\ InputsUnchanged
    /\ UNCHANGED m_src
    /\ UNCHANGED <<m_net, m_digest, m_date_from, m_date_to, m_after, m_before,
                   m_label, m_team_id, m_fc, m_i, m_targets, m_fetched,
                   m_markdowns, m_written, m_ai>>
    /\ UNCHANGED <<postVars, chanVars, userVars, digestVars>>

\* cli.py:634-681, the window: --hours counts back from now, everything
\* else is a range of whole days, refused when it ends before it starts.
ResolveWindow ==
    /\ m_pc = "window"
    /\ IF m_sel.kind = "hours"
       THEN LET now == m_today * MsPerDay + m_tod
                start == now - m_sel.n * MsPerHour
            IN  /\ m_after' = start
                /\ m_before' = now
                /\ m_date_from' = DateOf(start)
                /\ m_date_to' = DateOf(now)
                /\ m_label' = HoursLabel(m_sel.n)
                /\ m_pc' = "auth"
                /\ UNCHANGED m_exit
       ELSE LET r == date_range_from_args(m_sel, m_today, m_raw_from, m_raw_to)
            IN  IF r.exit
                THEN /\ Exit(1)
                     /\ UNCHANGED <<m_date_from, m_date_to, m_after, m_before, m_label>>
                ELSE /\ m_date_from' = r.from
                     /\ m_date_to' = r.to
                     /\ IF r.to < r.from
                        THEN /\ Exit(1)
                             /\ UNCHANGED <<m_after, m_before, m_label>>
                        ELSE /\ m_after' = DayStartMs(r.from)
                             /\ m_before' = DayEndMs(r.to)
                             /\ m_label' = period_label(r.from, r.to)
                             /\ m_pc' = "auth"
                             /\ UNCHANGED m_exit
    /\ InputsUnchanged
    /\ UNCHANGED m_src
    /\ UNCHANGED <<m_net, m_digest, m_missing, m_server_url, m_token, m_use_all,
                   m_use_direct, m_channels, m_team_id, m_fc, m_i, m_targets,
                   m_fetched, m_markdowns, m_written, m_ai>>
    /\ UNCHANGED <<postVars, chanVars, userVars, digestVars>>


\* An uncaught exception leaves main: traceback, exit status 1.
Crash ==
    /\ m_pc' = "crashed"
    /\ m_exit' = 1

\* What a request to the server comes to: a JSON answer, an HTTP error
\* status (raise_for_status, cli.py:152), or a failure of the transport
\* (connection refused, timeout, a body that is no JSON).
HttpStatuses == {403, 404, 500}
Answers ==
    [kind : {"ok"}, status : {200}]
        \cup [kind : {"HTTPError"}, status : HttpStatuses]
        \cup [kind : {"OtherError"}, status : {0}]
Failures == {"HTTPError", "OtherError"}

\* cli.py:685-692, the client and get_me.
Authenticate ==
    /\ m_pc = "auth"
    /\ m_net' = m_net + 1
    /\ \E a \in {"ok"} \cup Failures :
        CASE a = "ok" -> m_pc' = "team" /\ UNCHANGED m_exit
          [] a = "HTTPError" -> Exit(1)
          [] OTHER -> Crash
    /\ InputsUnchanged
    /\ UNCHANGED m_src
    /\ UNCHANGED <<m_digest, m_missing, m_server_url, m_token, m_use_all,
                   m_use_direct, m_channels, m_date_from, m_date_to, m_after,
                   m_before, m_label, m_team_id, m_fc, m_i, m_targets,
                   m_fetched, m_markdowns, m_written, m_ai>>
    /\ UNCHANGED <<postVars, chanVars, userVars, digestVars>>

\* Where main goes once the team is settled (cli.py:707, 719, 740, 766):
\* the configured names are looked at only without all-channels.
AfterNamed == IF m_use_direct THEN "direct" ELSE "fetch"
AfterTeam_namesFirst ==
    IF m_channels > 0 THEN "named" ELSE IF m_use_all THEN "all" ELSE AfterNamed
AfterTeam ==
    IF m_use_all THEN "all" ELSE IF m_channels > 0 THEN "named" ELSE AfterNamed

\* cli.py:694-701 with find_team (cli.py:158-166): no team configured, the
\* team found, or the run ends on ValueError / HTTPError.
ResolveTeam ==
    /\ m_pc = "team"
    /\ \E team \in {"unset", "found", "ValueError"} \cup Failures :
        /\ m_net' = IF team = "unset" THEN m_net ELSE m_net + 1
        /\ CASE team = "unset" ->
                    /\ m_team_id' = None
                    /\ m_pc' = AfterTeam
                    /\ UNCHANGED m_exit
             [] team = "found" ->
                    /\ m_team_id' = 1
                    /\ m_pc' = AfterTeam
                    /\ UNCHANGED m_exit
             [] team \in {"ValueError", "HTTPError"} ->
                    /\ Exit(1)
                    /\ UNCHANGED m_team_id
             [] OTHER ->
                    /\ Crash
                    /\ UNCHANGED m_team_id
    /\ InputsUnchanged
    /\ UNCHANGED m_src
    /\ UNCHANGED <<m_digest, m_missing, m_server_url, m_token, m_use_all,
                   m_use_direct, m_channels, m_date_from, m_date_to, m_after,
                   m_before, m_label, m_fc, m_i, m_targets, m_fetched,
                   m_markdowns, m_written, m_ai>>
    /\ UNCHANGED <<postVars, chanVars, userVars, digestVars>>

\* A list of channels by last_post_at, newest first, as get_all_channels
\* and get_direct_channels return it (cli.py:208, 220); f gives each
\* channel's last_post_at as a distance from after_ts: the millisecond
\* before the window starts, or its first millisecond.
LastPostOffsets == {-1, 0}
NewestFirst(f, k) == \A i \in 1 .. k, j \in 1 .. k : i < j => f[i] >= f[j]

\* cli.py:715 and 754, last_post_at < after_ts, on the distance of
\* last_post_at from after_ts.
Stale_orAtStart(offset) == offset <= 0
Stale(offset) == offset < 0

\* cli.py:714-716 and 753-755: the channels before the first stale one.
ActivePrefix(f, k) == {i \in 1 .. k : \A j \in 1 .. i : ~Stale(f[j])}

\* The targets appended for the first n channels of a list.
TargetsOf(kind, n) == [i \in 1 .. n |-> [kind |-> kind, key |-> i]]

\* Requests of _fetch_member_channels (cli.py:181-196): one with a team,
\* otherwise /teams first and then the first team's channels.
MemberRequests(team_id, no_teams) ==
    IF team_id # None \/ no_teams THEN 1 ELSE 2

\* cli.py:707-718, every subscribed channel active in the window.
CollectAllChannels ==
    /\ m_pc = "all"
    /\ \E a \in {"ok"} \cup Failures, no_teams \in BOOLEAN,
          k \in 0 .. m_limit :
        \E f \in [1 .. k -> LastPostOffsets] :
            /\ NewestFirst(f, k)
            /\ no_teams => (m_team_id = None /\ k = 0)
            /\ a # "ok" => (k = 0 /\ ~no_teams)
            /\ m_net' = m_net + MemberRequests(m_team_id, no_teams)
            /\ IF a = "ok"
               THEN /\ m_targets' = m_targets \o TargetsOf("all", Cardinality(ActivePrefix(f, k)))
                    /\ m_src' = [m_src EXCEPT !.all = f]
                    /\ m_pc' = AfterNamed
                    /\ UNCHANGED m_exit
               ELSE /\ Crash
                    /\ UNCHANGED <<m_targets, m_src>>
    /\ InputsUnchanged
    /\ UNCHANGED <<m_digest, m_missing, m_server_url, m_token, m_use_all,
                   m_use_direct, m_channels, m_date_from, m_date_to, m_after,
                   m_before, m_label, m_team_id, m_fc, m_i, m_fetched,
                   m_markdowns, m_written, m_ai>>
    /\ UNCHANGED <<postVars, chanVars, userVars, digestVars>>

\* cli.py:177, the one status find_channel turns into None.
IsNotFound_anyStatus(status) == status \in HttpStatuses
IsNotFound(status) == status = 404

\* find_channel (cli.py:168-180, client.py:44-55): the channel, None on
\* an HTTP 404, every other failure raised again.
find_channel(answer) ==
    CASE answer.kind = "ok" -> [answer |-> answer, ended |-> "channel"]
      [] answer.kind = "HTTPError" /\ IsNotFound(answer.status) ->
            [answer |-> answer, ended |-> "None"]
      [] OTHER -> [answer |-> answer, ended |-> "raised"]

\* cli.py:725-733, the search is best effort: its HTTP errors are passed
\* over, any other failure leaves main.
SearchRaises_httpToo(search) == search \in Failures
SearchRaises(search) == search = "OtherError"

\* cli.py:720-738, one configured channel name: find_channel when a team
\* is known, then the search endpoint, whose HTTP errors are swallowed.
ResolveNamedChannel ==
    /\ m_pc = "named"
    /\ m_i < m_channels
    /\ m_i' = m_i + 1
    /\ \E answer \in Answers, search \in {"channel", "null"} \cup Failures :
        LET fc == IF m_team_id # None THEN find_channel(answer) ELSE NoCall
            searched == fc.ended \in {"none", "None"}
            found == fc.ended = "channel" \/ (searched /\ search = "channel")
            raised == fc.ended = "raised" \/ (searched /\ SearchRaises(search))
        IN  /\ m_team_id = None => answer.kind = "ok"
            /\ ~searched => search = "null"
            /\ m_fc' = fc
            /\ m_src' = [m_src EXCEPT !.named =
                            Append(@, [lookup |-> fc.ended,
                                       search |-> IF searched THEN search ELSE "none"])]
            /\ m_net' = m_net + (IF m_team_id # None THEN 1 ELSE 0)
                              + (IF searched THEN 1 ELSE 0)
            /\ IF raised
               THEN /\ Crash
                    /\ UNCHANGED m_targets
               ELSE /\ m_targets' = IF found
                                    THEN Append(m_targets, [kind |-> "named", key |-> m_i + 1])
                                    ELSE m_targets
                    /\ m_pc' = IF m_i + 1 = m_channels THEN AfterNamed ELSE "named"
                    /\ UNCHANGED m_exit
    /\ InputsUnchanged
    /\ UNCHANGED <<m_digest, m_missing, m_server_url, m_token, m_use_all,
                   m_use_direct, m_channels, m_date_from, m_date_to, m_after,
                   m_before, m_label, m_team_id, m_fetched, m_markdowns,
                   m_written, m_ai>>
    /\ UNCHANGED <<postVars, chanVars, userVars, digestVars>>

\* cli.py:740-762, the direct messages active in the window; each one's
\* label costs at most one user lookup, whose HTTP errors get_username
\* absorbs (cli.py:234-241).
CollectDirectChannels ==
    /\ m_pc = "direct"
    /\ \E a \in {"ok"} \cup Failures, no_teams \in BOOLEAN,
          k \in 0 .. m_limit, name \in {"ok", "OtherError"} :
        \E f \in [1 .. k -> LastPostOffsets] :
            LET n == Cardinality(ActivePrefix(f, k))
            IN  /\ NewestFirst(f, k)
                /\ no_teams => (m_team_id = None /\ k = 0)
                /\ a # "ok" => (k = 0 /\ ~no_teams)
                /\ n = 0 => name = "ok"
                /\ m_net' = m_net + MemberRequests(m_team_id, no_teams)
                                  + (IF name = "ok" THEN n ELSE 1)
                /\ IF a = "ok" /\ name = "ok"
                   THEN /\ m_targets' = m_targets \o TargetsOf("dm", n)
                        /\ m_src' = [m_src EXCEPT !.dm = f]
                        /\ m_pc' = "fetch"
                        /\ UNCHANGED m_exit
                   ELSE /\ Crash
                        /\ UNCHANGED <<m_targets, m_src>>
    /\ InputsUnchanged
    /\ UNCHANGED <<m_digest, m_missing, m_server_url, m_token, m_use_all,
                   m_use_direct, m_channels, m_date_from, m_date_to, m_after,
                   m_before, m_label, m_team_id, m_fc, m_i, m_fetched,
                   m_markdowns, m_written, m_ai>>
    /\ UNCHANGED <<postVars, chanVars, userVars, digestVars>>


\* cli.py:773, the failure of a fetch that the loop survives.
FetchCaught_nothing(outcome) == FALSE
FetchCaught(outcome) == outcome = "HTTPError"

\* cli.py:779, only a channel with posts is rendered.
Rendered_always(outcome) == outcome \in {"posts", "empty"}
Rendered(outcome) == outcome = "posts"

\* cli.py:766-790, one target of the fetch loop: get_posts_in_range
\* returns posts, returns none, or raises.
FetchTarget ==
    /\ m_pc = "fetch"
    /\ Len(m_fetched) < Len(m_targets)
    /\ \E outcome \in {"posts", "empty"} \cup Failures :
        /\ m_fetched' = Append(m_fetched, outcome)
        /\ m_net' = m_net + 1
        /\ IF outcome \in Failures /\ ~FetchCaught(outcome)
           THEN /\ Crash
                /\ UNCHANGED m_markdowns
           ELSE /\ m_markdowns' = IF Rendered(outcome)
                                  THEN Append(m_markdowns, m_targets[Len(m_fetched) + 1])
                                  ELSE m_markdowns
                /\ UNCHANGED <<m_pc, m_exit>>
    /\ InputsUnchanged
    /\ UNCHANGED m_src
    /\ UNCHANGED <<m_digest, m_missing, m_server_url, m_token, m_use_all,
                   m_use_direct, m_channels, m_date_from, m_date_to, m_after,
                   m_before, m_label, m_team_id, m_fc, m_i, m_targets,
                   m_written, m_ai>>
    /\ UNCHANGED <<postVars, chanVars, userVars, digestVars>>

\* cli.py:793, the digest is written when something was rendered.
HasContent_always(markdowns) == TRUE
HasContent(markdowns) == markdowns # <<>>

\* cli.py:803, the summary follows a digest just written unless
\* --digest-only was given.
SummaryWanted_anyway(digest_only, written) == written
SummaryWanted(digest_only, written) == ~digest_only /\ written

\* cli.py:792-806, after the loop: the digest file digest_{period_label}.md
\* holding the renders in order, and the summary unless --digest-only.
WriteDigest ==
    /\ m_pc = "fetch"
    /\ Len(m_fetched) = Len(m_targets)
    /\ m_written' = IF HasContent(m_markdowns)
                    THEN Append(m_written, <<"digest", m_label, m_markdowns>>)
                    ELSE m_written
    /\ m_pc' = IF SummaryWanted(m_digest_only, HasContent(m_markdowns))
               THEN "summarize"
               ELSE "done"
    /\ InputsUnchanged
    /\ UNCHANGED m_src
    /\ UNCHANGED <<m_exit, m_net, m_digest, m_missing, m_server_url, m_token,
                   m_use_all, m_use_direct, m_channels, m_date_from, m_date_to,
                   m_after, m_before, m_label, m_team_id, m_fc, m_i, m_targets,
                   m_fetched, m_markdowns, m_ai>>
    /\ UNCHANGED <<postVars, chanVars, userVars, digestVars>>


(***************************************************************************)
(* run_ai_summary (cli.py:424-468, summary.py:32-76).                      *)
(***************************************************************************)

\* BACKENDS (cli.py:39-52, summary.py:16-29).
Backends == {"copilot", "claude"}
input_mode(backend) == IF backend = "claude" THEN "stdin" ELSE "file"

\* Exit codes of the backend: 0 .. MaxCode, or KilledBy9 when a signal
\* ended it (subprocess reports the negated signal number).
MaxCode == 2
KilledBy9 == -9
ReturnCodes == (0 .. MaxCode) \cup {KilledBy9}

\* The status the system reports for sys.exit(code).
ExitStatus(code) == code % 256

\* File names as sequences of pieces, "digest_" being the piece that the
\* summary's name replaces.  A generated digest is digest_{period_label}.md
\* (cli.py:794); a digest given with --digest FILE has any name.
DigestName(label) == <<"digest_", label>>
GivenNames == {<<"digest_", "a">>, <<"notes">>, <<"team_", "digest_", "of_", "digest_", "b">>}

\* The digest main hands to run_ai_summary (cli.py:599, 804).
DigestPaths == IF m_digest = "existing" THEN GivenNames ELSE {DigestName(m_label)}

\* cli.py:428-441: the backend is started on stdin, or the temporary file
\* is made for it; a backend that cannot be started raises.
AiStart ==
    /\ m_pc = "summarize"
    /\ \E backend \in Backends, step \in {"ok", "raises"}, code \in ReturnCodes,
          digest_path \in DigestPaths :
        LET stdin == input_mode(backend) = "stdin"
            call == [backend |-> backend, path |-> digest_path,
                     runs |-> IF stdin THEN 1 ELSE 0, tmp |-> "none",
                     ended |-> "none", code |-> NoCode]
        IN  /\ step = "raises" => code = 0
            /\ ~stdin => code = 0
            /\ IF step = "raises"
               THEN /\ Crash
                    /\ m_ai' = [call EXCEPT !.ended = "raised"]
               ELSE /\ UNCHANGED m_exit
                    /\ IF stdin
                       THEN /\ m_pc' = "ai_result"
                            /\ m_ai' = [call EXCEPT !.ended = "returned", !.code = code]
                       ELSE /\ m_pc' = "ai_try"
                            /\ m_ai' = [call EXCEPT !.tmp = "exists"]
    /\ InputsUnchanged
    /\ UNCHANGED m_src
    /\ UNCHANGED <<m_net, m_digest, m_missing, m_server_url, m_token,
                   m_use_all, m_use_direct, m_channels, m_date_from, m_date_to,
                   m_after, m_before, m_label, m_team_id, m_fc, m_i, m_targets,
                   m_fetched, m_markdowns, m_written>>
    /\ UNCHANGED <<postVars, chanVars, userVars, digestVars>>

\* cli.py:456-457, finally: os.unlink(tmp_path), however the block ended.
Finally_onReturnOnly(ended, tmp) == IF ended = "returned" THEN "removed" ELSE tmp
Finally(ended, tmp) == "removed"

\* cli.py:443-457, the try block of file mode: the digest is written to
\* the temporary file and the backend run; either can raise.
AiTry ==
    /\ m_pc = "ai_try"
    /\ \E step \in {"write_raises", "run_raises", "returned"}, code \in ReturnCodes :
        LET ended == IF step = "returned" THEN "returned" ELSE "raised"
        IN  /\ step # "returned" => code = 0
            /\ m_ai' = [m_ai EXCEPT !.tmp = Finally(ended, m_ai.tmp),
                                    !.runs = IF step = "write_raises" THEN 0 ELSE 1,
                                    !.ended = ended,
                                    !.code = IF step = "returned" THEN code ELSE NoCode]
            /\ IF step = "returned"
               THEN m_pc' = "ai_result" /\ UNCHANGED m_exit
               ELSE Crash
    /\ InputsUnchanged
    /\ UNCHANGED m_src
    /\ UNCHANGED <<m_net, m_digest, m_missing, m_server_url, m_token,
                   m_use_all, m_use_direct, m_channels, m_date_from, m_date_to,
                   m_after, m_before, m_label, m_team_id, m_fc, m_i, m_targets,
                   m_fetched, m_markdowns, m_written>>
    /\ UNCHANGED <<postVars, chanVars, userVars, digestVars>>

\* cli.py:460, the backend failed.
Failed_never(code) == FALSE
Failed(code) == code # 0

\* cli.py:464-466, str.replace("digest_", "summary_", 1) on the file name:
\* the first "digest_" piece becomes "summary_", a name without one stays.
SummaryName(name) ==
    LET at == {i \in 1 .. Len(name) : name[i] = "digest_"}
    IN  IF at = {} THEN name
        ELSE [name EXCEPT ![CHOOSE i \in at : \A j \in at : i <= j] = "summary_"]

\* cli.py:459-468: a failed backend ends the process with its code,
\* otherwise the summary file is written next to the digest.
AiFinish ==
    /\ m_pc = "ai_result"
    /\ IF Failed(m_ai.code)
       THEN /\ Exit(ExitStatus(m_ai.code))
            /\ UNCHANGED m_written
       ELSE /\ m_written' = Append(m_written, <<"summary", m_label, SummaryName(m_ai.path)>>)
            /\ m_pc' = "done"
            /\ UNCHANGED m_exit
    /\ InputsUnchanged
    /\ UNCHANGED m_src
    /\ UNCHANGED <<m_net, m_digest, m_missing, m_server_url, m_token,
                   m_use_all, m_use_direct, m_channels, m_date_from, m_date_to,
                   m_after, m_before, m_label, m_team_id, m_fc, m_i, m_targets,
                   m_fetched, m_markdowns, m_ai>>
    /\ UNCHANGED <<postVars, chanVars, userVars, digestVars>>

\* A run of main on the inputs chosen at the start.
NextMain ==
    \/ ParseArgs
    \/ ReadConfig
    \/ ResolveWindow
    \/ Authenticate
    \/ ResolveTeam
    \/ CollectAllChannels
    \/ ResolveNamedChannel
    \/ CollectDirectChannels
    \/ FetchTarget
    \/ WriteDigest
    \/ AiStart
    \/ AiTry
    \/ AiFinish

\* Runs over every way to name the period, with lists of one channel.
InitWindow ==
    /\ PostsIdle /\ ChannelsIdle /\ UsersIdle /\ DigestIdle
    /\ MainLocalsUnset
    /\ m_sel \in Selectors
    /\ m_today \in Todays
    /\ m_tod \in IF m_sel.kind = "hours" THEN TimesOfDay ELSE {0}
    /\ m_raw_from \in IF m_sel.kind = "config" THEN ConfigDates ELSE {AbsentDate}
    /\ m_raw_to \in IF m_sel.kind = "config" THEN ConfigDates ELSE {AbsentDate}
    /\ m_limit = 1
    /\ m_digest_only \in BOOLEAN

SpecWindow == InitWindow /\ [][NextMain]_vars

\* Runs for today, with channel lists and name lists up to MaxTargets.
InitMain ==
    /\ PostsIdle /\ ChannelsIdle /\ UsersIdle /\ DigestIdle
    /\ MainLocalsUnset
    /\ m_sel = [kind |-> "today", n |-> 0]
    /\ m_today = FirstDay
    /\ m_tod = 0
    /\ m_raw_from = AbsentDate
    /\ m_raw_to = AbsentDate
    /\ m_limit = MaxTargets
    /\ m_digest_only \in BOOLEAN

SpecMain == InitMain /\ [][NextMain]_vars


(***************************************************************************)
(* The text of a digest (cli.py:330-402 and 793-798, render.py:52-124).    *)
(* A text is the sequence of its lines, "\n".join(lines); a line is        *)
(* empty (""), a rule ("---") or some other text ("t").                    *)
(***************************************************************************)

MaxRenders == 2
MaxRenderDays == 2
MaxDayLines == 2

\* cli.py:797, "\n\n---\n\n": between two texts it stands as the lines
\* "", "---", "" after the last line of the first.
SeparatorLines == <<"", "---", "">>

\* render.py:73-83, title, blank, four fields, blank, rule, blank.
HeaderLines == <<"t", "", "t", "t", "t", "t", "", "---", "">>

\* render.py:97-122, a day: heading, blank, the lines of its rendered
\* posts (render_post gives none for an empty message and never a blank
\* line), then blank, rule, blank.
DayLines(n) == <<"t", "">> \o [i \in 1 .. n |-> "t"] \o <<"", "---", "">>

RECURSIVE DaysLines(_)
DaysLines(days) ==
    IF days = <<>> THEN <<>> ELSE DayLines(Head(days)) \o DaysLines(Tail(days))

\* render_channel_markdown (render.py:52-124) of a channel with posts;
\* days[k] is the number of lines the posts of the k-th day render to.
render_channel_markdown(days) == HeaderLines \o DaysLines(days)

\* str.join (cli.py:796-798).
RECURSIVE Join(_)
Join(renders) ==
    IF Len(renders) = 1 THEN renders[1]
    ELSE renders[1] \o SeparatorLines \o Join(Tail(renders))

\* The separator occurs in a text right after line i: the line break that
\* ends line i, a blank line, a rule, a blank line and one more line break.
SeparatorAfter(lines, i) ==
    /\ i >= 1
    /\ i + 4 <= Len(lines)
    /\ lines[i + 1] = ""
    /\ lines[i + 2] = "---"
    /\ lines[i + 3] = ""

\* len(text.split(separator)): occurrences are taken left to right and do
\* not overlap; after one at line i the text goes on with line i + 4.
RECURSIVE SplitCount(_, _)
SplitCount(lines, from) ==
    LET at == {i \in from .. Len(lines) : SeparatorAfter(lines, i)}
    IN  IF at = {} THEN 1
        ELSE 1 + SplitCount(lines, (CHOOSE i \in at : \A j \in at : i <= j) + 4)

\* cli.py:782-790, one more channel rendered for the digest.
RenderChannel ==
    /\ d_digest = <<>>
    /\ Len(d_renders) < MaxRenders
    /\ \E k \in 1 .. MaxRenderDays :
        \E days \in [1 .. k -> 0 .. MaxDayLines] :
            d_renders' = Append(d_renders, render_channel_markdown(days))
    /\ UNCHANGED <<d_digest, d_segments, r_posts, r_out>>
    /\ UNCHANGED <<postVars, chanVars, userVars, mainVars>>

\* cli.py:793-798, the digest joined from the renders, and what a reader
\* gets who splits it on the separator.
JoinDigest ==
    /\ d_digest = <<>>
    /\ d_renders # <<>>
    /\ d_digest' = Join(d_renders)
    /\ d_segments' = SplitCount(Join(d_renders), 1)
    /\ UNCHANGED <<d_renders, r_posts, r_out>>
    /\ UNCHANGED <<postVars, chanVars, userVars, mainVars>>

InitDigest == PostsIdle /\ ChannelsIdle /\ UsersIdle /\ MainIdle

NextDigest == RenderChannel \/ JoinDigest

SpecDigest == InitDigest /\ [][NextDigest]_vars


(***************************************************************************)
(* Properties of the run.                                                   *)
(***************************************************************************)

Ended == m_pc \in {"done", "exited", "crashed"}
Last(seq) == seq[Len(seq)]
WrittenKinds == {m_written[k][1] : k \in 1 .. Len(m_written)}

\* C11: find_channel returns None when the server answers HTTP 404 and
\* only then, and raises every other failure of the request (another HTTP
\* status, a transport error) to its caller.
C11_FindChannelNoneOnlyOn404 ==
    LET a == m_fc.answer
    IN  /\ (a.kind = "HTTPError" /\ a.status = 404) => m_fc.ended = "None"
        /\ (a.kind = "HTTPError" /\ a.status # 404) => m_fc.ended = "raised"
        /\ a.kind = "OtherError" => m_fc.ended = "raised"
        /\ a.kind = "ok" => m_fc.ended = "channel"
        /\ m_fc.ended = "raised" => m_pc = "crashed"

\* A 404 was answered to find_channel and the run went on.
C11_Witness ==
    /\ m_fc.answer.kind = "HTTPError"
    /\ m_fc.answer.status = 404
    /\ m_fc.ended = "None"
    /\ m_pc = "fetch"

\* C12: every run that reaches a post fetch has date_to >= date_from; a
\* range that ends before it starts never gets as far as a fetch.
C12_FetchOnlyWithOrderedRange ==
    (m_pc = "fetch" \/ m_fetched # <<>>) => m_date_to >= m_date_from

\* C13: with --days N the window ends today and starts N - 1 days before
\* today.
C13_DaysCountsToday ==
    (m_sel.kind = "days" /\ m_date_to # AbsentDate) =>
        /\ m_date_to = m_today
        /\ m_date_from + (m_sel.n - 1) = m_today

\* --days 2 was resolved and the run went on to the server.
C13_Witness ==
    /\ m_sel.kind = "days"
    /\ m_sel.n = 2
    /\ m_date_from = m_today - 1
    /\ m_pc = "auth"

\* The configuration of a generating run is faulty: no server URL, no
\* token or the placeholder, or no date range in flags and config.
NoDateRange == m_sel.kind = "config" /\ m_raw_from = AbsentDate
ConfigFault ==
    /\ m_digest = "none"
    /\ m_pc # "start"
    /\ m_missing # {} \/ NoDateRange

\* C14: on a faulty configuration the run sends nothing to the server and
\* ends by exiting non-zero: a missing server URL or token ends it as the
\* configuration is read, a missing date range as the window is resolved.
C14_ConfigFaultExitsBeforeNetwork ==
    ConfigFault =>
        /\ m_net = 0
        /\ m_pc \in {"config", "window", "exited"}
        /\ m_missing # {} => m_pc = "exited"
        /\ m_pc = "exited" => m_exit # 0

\* The placeholder token was configured and the run exited.
C14_Witness ==
    /\ m_missing = {"token"}
    /\ m_pc = "exited"
    /\ m_exit = 1
    /\ m_net = 0

\* C15 as stated: whatever way the fetch of a target fails, the loop goes
\* on with the next target.
C15_AnyFetchFailureSkips ==
    [][(m_pc = "fetch" /\ m_fetched' # m_fetched /\ Last(m_fetched') \in Failures)
            => (m_pc' = "fetch" /\ m_markdowns' = m_markdowns)]_vars

\* C15: when the fetch of a target fails with an HTTP error the loop skips
\* that target and goes on with the next one; the run does not end there.
C15_HttpFetchFailureSkips ==
    [][(m_pc = "fetch" /\ m_fetched' # m_fetched /\ Last(m_fetched') = "HTTPError")
            => (m_pc' = "fetch" /\ m_markdowns' = m_markdowns)]_vars

\* A target failed with an HTTP error and the one after it was fetched
\* and rendered.
C15_Witness ==
    \E i \in 1 .. Len(m_fetched) - 1 :
        /\ m_fetched[i] = "HTTPError"
        /\ m_fetched[i + 1] = "posts"
        /\ Last(m_markdowns) = m_targets[i + 1]

\* The targets fetched so far that returned at least one post.
WithPosts == {i \in 1 .. Len(m_fetched) : m_fetched[i] = "posts"}
InTargetOrder(blocks) ==
    /\ Len(blocks) = Cardinality(WithPosts)
    /\ \A i \in WithPosts :
        blocks[Cardinality({j \in WithPosts : j <= i})] = m_targets[i]

\* C16: the blocks of the digest are exactly the targets whose fetch
\* succeeded with at least one post, in the order of the targets.
C16_BlocksAreTargetsWithPosts ==
    /\ InTargetOrder(m_markdowns)
    /\ \A k \in 1 .. Len(m_written) :
        m_written[k][1] = "digest" => InTargetOrder(m_written[k][3])

\* A digest of two blocks was written from four targets, the first of
\* which had no posts and the third failed.
C16_Witness ==
    /\ m_fetched = <<"empty", "posts", "HTTPError", "posts">>
    /\ "digest" \in WrittenKinds

\* The fetch loop of a generating run is over.
LoopOver ==
    /\ m_digest = "none"
    /\ m_pc \in {"summarize", "ai_try", "ai_result", "done"} \/ (Ended /\ m_ai # NoAi)

\* C17: the file digest_{period_label}.md is written if and only if at
\* least one channel produced content; nothing is written before the
\* loop is over.
C17_DigestIffContent ==
    /\ LoopOver => ("digest" \in WrittenKinds <=> WithPosts # {})
    /\ (m_digest = "none" /\ ~LoopOver) => m_written = <<>>
    /\ \A k \in 1 .. Len(m_written) :
        m_written[k][1] = "digest" => m_written[k][2] = m_label

\* Every target was fetched, none had content, and the run is done
\* without a digest.
C17_Witness ==
    /\ m_pc = "done"
    /\ Len(m_fetched) = 2
    /\ WithPosts = {}
    /\ m_written = <<>>

\* C18: a digest joined from N renders of channels with posts splits on
\* the separator into exactly N segments.
C18_SplitYieldsOneSegmentPerRender ==
    d_segments # NotSplit => d_segments = Len(d_renders)

\* C19: in file mode the temporary file is gone on every way out of
\* run_ai_summary: the backend returned, the write or the launch raised.
C19_TempFileRemoved ==
    (Ended \/ m_pc = "ai_result") => m_ai.tmp # "exists"

\* The temporary file existed, the try block raised, and the file is gone.
C19_Witness ==
    /\ m_pc = "crashed"
    /\ m_ai.backend = "copilot"
    /\ m_ai.ended = "raised"
    /\ m_ai.tmp = "removed"

\* C20: when the backend exits with a non-zero code the process exits with
\* that code and no summary file is written, in stdin mode and file mode.
C20_BackendFailureExitsWithCode ==
    (m_ai.code > 0 /\ m_pc # "ai_result") =>
        /\ m_pc = "exited"
        /\ m_exit = m_ai.code
        /\ "summary" \notin WrittenKinds

\* The file-mode backend exited with code 2 and so did the process.
C20_Witness ==
    /\ m_ai.backend = "copilot"
    /\ m_ai.code = 2
    /\ m_pc = "exited"
    /\ m_exit = 2
    /\ "digest" \in WrittenKinds

(***************************************************************************)
(* The cursor of get_posts_in_range.                                       *)
(***************************************************************************)

\* C27: the first request of get_posts_in_range carries no cursor, and
\* every later request carries before = the last id of the order list of
\* the page received just before it; against an endpoint that lists the
\* posts newest first that id is the one of an oldest post of the page.
C27_CursorIsLastIdOfPreviousPage ==
    [][requests' = requests + 1 =>
            IF requests = 0
            THEN last_cursor' = None
            ELSE /\ last_order # <<>>
                 /\ last_cursor' = last_order[Len(last_order)]
                 /\ honest => \A i \in 1 .. Len(last_order) :
                                  history[last_cursor'] <= history[last_order[i]]]_vars

\* A call that returned after three requests, the last of them with a
\* cursor that is not the first id of the page before.
C27_Witness ==
    /\ Returned
    /\ requests = 3
    /\ last_cursor = 2 * per_page

(***************************************************************************)
(* The window of a run in day mode.                                        *)
(***************************************************************************)

\* The run resolved a window of whole days and went on.
DayWindowResolved ==
    /\ m_digest = "none"
    /\ m_sel.kind # "hours"
    /\ m_pc \notin {"start", "config", "window", "exited"}

\* C30: in day mode every instant of every day from date_from through
\* date_to lies in [after_ts, before_ts], so that get_posts_in_range keeps
\* a post created at it.
C30_DayWindowCoversEveryInstant ==
    DayWindowResolved =>
        \A d \in m_date_from .. m_date_to, t \in TimesOfDay :
            InWindow(d * MsPerDay + t, m_after, m_before)

(***************************************************************************)
(* Properties of the files written and of the order of the run.            *)
(***************************************************************************)

\* C21: once a digest file exists no later step of the run writes to its
\* path; in particular the summary, in a generating run and with
\* --digest FILE, goes to another path than the digest it summarizes.
C21_DigestNeverOverwritten ==
    /\ Cardinality({k \in 1 .. Len(m_written) : m_written[k][1] = "digest"}) <= 1
    /\ \A k \in 1 .. Len(m_written) :
        m_written[k][1] = "summary" => m_written[k][3] # m_ai.path

\* The steps of main from top to bottom.
Rank(at) ==
    CASE at = "start" -> 0
      [] at = "config" -> 1
      [] at = "window" -> 2
      [] at = "auth" -> 3
      [] at = "team" -> 4
      [] at = "all" -> 5
      [] at = "named" -> 5
      [] at = "direct" -> 6
      [] at = "fetch" -> 7
      [] at = "summarize" -> 8
      [] at = "ai_try" -> 9
      [] at = "ai_result" -> 10
      [] OTHER -> 11

\* C26: the run never goes back to an earlier step; the backend is started
\* at most once, and only for a digest written by this run or an existing
\* file given with --digest; never with --digest-only on a generating run
\* and never when no channel had content; with --digest FILE the
\* configuration is not read and nothing is sent to the server.
C26_TopDownSummaryLast ==
    /\ [][Rank(m_pc') >= Rank(m_pc)]_vars
    /\ [](/\ m_ai.runs <= 1
          /\ m_ai # NoAi => ("digest" \in WrittenKinds \/ m_digest = "existing")
          /\ (m_digest = "none" /\ m_digest_only) => m_ai = NoAi
          /\ (m_digest = "none" /\ WithPosts = {}) => m_ai = NoAi
          /\ m_digest # "none" =>
                /\ m_net = 0
                /\ m_pc \in {"exited", "summarize", "ai_try", "ai_result", "done", "crashed"}
                /\ m_server_url = <<>> /\ m_missing = {})

\* A generating run with --digest-only wrote its digest and is done
\* without having started the backend.
C26_Witness ==
    /\ m_digest = "none"
    /\ m_digest_only
    /\ m_pc = "done"
    /\ "digest" \in WrittenKinds
    /\ m_ai = NoAi

(***************************************************************************)
(* Properties of the export targets.                                       *)
(***************************************************************************)

\* Keys of the targets of one source, and the place of a source in the list.
KeysOf(kind) == {m_targets[i].key : i \in {j \in 1 .. Len(m_targets) : m_targets[j].kind = kind}}
SourceRank(kind) == CASE kind = "all" -> 1 [] kind = "named" -> 2 [] OTHER -> 3

\* The targets stand source by source, all-channels, named, direct, and
\* within a source in the order the source gave them.
InSourceOrder ==
    \A i \in 1 .. Len(m_targets), j \in 1 .. Len(m_targets) :
        i < j =>
            \/ SourceRank(m_targets[i].kind) < SourceRank(m_targets[j].kind)
            \/ /\ m_targets[i].kind = m_targets[j].kind
               /\ m_targets[i].key < m_targets[j].key

\* What the server's answers make of a configured name.
NameFound(e) ==
    e.lookup = "channel" \/ (e.lookup \in {"none", "None"} /\ e.search = "channel")
NameMissed(e) ==
    e.lookup \in {"none", "None"} /\ e.search \in {"null", "HTTPError"}
FoundNames == {i \in 1 .. Len(m_src.named) : NameFound(m_src.named[i])}
ActiveAt(list) == {i \in 1 .. Len(list) : list[i] >= 0}

\* Every source contributed what it got.
SourcesContribute ==
    /\ KeysOf("all") = ActiveAt(m_src.all)
    /\ KeysOf("named") = FoundNames
    /\ KeysOf("dm") = ActiveAt(m_src.dm)

\* C22 as stated: the three sources contribute independently of each
\* other; in particular every configured name is resolved whether or not
\* all-channels is enabled.
C22_ThreeIndependentSources ==
    m_pc = "fetch" =>
        /\ InSourceOrder
        /\ SourcesContribute
        /\ Len(m_src.named) = m_channels
        /\ ~m_use_direct => m_src.dm = <<>>

\* C22: the target list is the targets of all-channels when that is
\* enabled and otherwise those of the configured names, followed by the
\* direct messages when they are enabled; with all-channels the configured
\* names are not looked at.
C22_AllChannelsReplacesNames ==
    m_pc = "fetch" =>
        /\ InSourceOrder
        /\ SourcesContribute
        /\ m_use_all => m_src.named = <<>>
        /\ ~m_use_all => (m_src.all = <<>> /\ Len(m_src.named) = m_channels)
        /\ ~m_use_direct => m_src.dm = <<>>

\* All-channels and direct messages were enabled and names configured:
\* the targets are those of all-channels and the direct messages.
C22_Witness ==
    /\ m_pc = "fetch"
    /\ m_use_all /\ m_use_direct /\ m_channels = 2
    /\ KeysOf("all") = {1, 2}
    /\ KeysOf("dm") = {1}
    /\ Len(m_targets) = 3

\* C23: in all-channels mode and in direct-message mode the targets added
\* are exactly the fetched channels with last_post_at >= after_ts, none of
\* them discarded and no staler one kept, as many as are active in the
\* period.
C23_EarlyStopKeepsExactlyActive ==
    /\ KeysOf("all") = ActiveAt(m_src.all)
    /\ KeysOf("dm") = ActiveAt(m_src.dm)
    /\ Cardinality(KeysOf("all")) + Cardinality(KeysOf("dm"))
        = Cardinality({i \in 1 .. Len(m_targets) : m_targets[i].kind # "named"})

\* Both lists held a channel last posted to at the very start of the
\* window, which was kept, and a stale one behind it, which was not.
C23_Witness ==
    /\ m_src.all = <<0, -1>>
    /\ m_src.dm = <<0, -1>>
    /\ Len(m_targets) = 2
    /\ m_pc = "fetch"

\* C24: a configured name that neither find_channel nor the search finds
\* is skipped and the loop goes on; the named targets are the names found,
\* in configuration order, and a run that gets past the names has handled
\* every one of them.
C24_MissedNameIsSkipped ==
    /\ [][(m_src.named' # m_src.named /\ NameMissed(Last(m_src.named')))
            => (m_pc' \in {"named", "direct", "fetch"} /\ m_targets' = m_targets)]_vars
    /\ [](/\ KeysOf("named") = FoundNames
          /\ InSourceOrder
          /\ (~m_use_all /\ m_pc \in {"direct", "fetch"}) => Len(m_src.named) = m_channels)

\* The first name was missed, on a 404 and a failed search, and the
\* second one found: it is the only target.
C24_Witness ==
    /\ Len(m_src.named) = 2
    /\ m_src.named[1] = [lookup |-> "None", search |-> "HTTPError"]
    /\ NameFound(m_src.named[2])
    /\ m_targets = <<[kind |-> "named", key |-> 2]>>
    /\ m_pc = "fetch"

(***************************************************************************)
(* Threads in render_channel_markdown (render.py:32-49 and 85-124,         *)
(* cli.py:310-327 and 363-400).  A post is [id, day, root_id, body]: its   *)
(* id, the UTC day of its create_at, the id of the post it replies to or   *)
(* NoRoot, and whether anything is left of its message once the lines of   *)
(* white space are gone.  The rendering is the sequence of its entries:    *)
(* <<"day", d>> for a day heading, <<"post", id, marker>> for a post.      *)
(***************************************************************************)

MaxRenderPosts == 3
MaxPostDays == 2

NoRoot == 0
Bodies == {"text", "blank"}

\* Lists of posts as main hands them over: in the order of create_at, so
\* the days do not decrease; ids are the places in the list, and a root id
\* may be any of them or the id of a post that is not in the list.
PostLists(n) ==
    {[i \in 1 .. n |-> [id |-> i, day |-> day[i], root_id |-> root[i], body |-> body[i]]] :
        day \in {f \in [1 .. n -> 1 .. MaxPostDays] :
                    \A i \in 1 .. n, j \in 1 .. n : i < j => f[i] <= f[j]},
        root \in [1 .. n -> {NoRoot} \cup (1 .. n + 1)],
        body \in [1 .. n -> Bodies]}

RECURSIVE Flatten(_)
Flatten(seqs) == IF seqs = <<>> THEN <<>> ELSE Head(seqs) \o Flatten(Tail(seqs))

\* render.py:35-40, a message with nothing left renders to nothing.
IsEmptyBody_never(body) == FALSE
IsEmptyBody(body) == body = "blank"

\* render.py:116, the indent given to a reply.
ReplyMarker_none == ""
ReplyMarker == "reply"

\* render_post (render.py:32-49): no entry for an empty message.
render_post(post, indent) ==
    IF IsEmptyBody(post.body) THEN <<>> ELSE <<<<"post", post.id, indent>>>>

\* render.py:89-92 and 98, the posts of one day in the order of the list.
DayPosts(plist, d) == SelectSeq(plist, LAMBDA p : p.day = d)

\* render.py:98 and 103, the posts among which the replies of a day are sought.
ThreadPool_allDays(plist, day_posts) == plist
ThreadPool(plist, day_posts) == day_posts

\* render.py:100-108: the posts without a root id, and the replies by root.
TopLevel(day_posts) == SelectSeq(day_posts, LAMBDA p : p.root_id = NoRoot)
RepliesTo(pool, id) == SelectSeq(pool, LAMBDA p : p.root_id = id)

\* render.py:110-118: a top-level post and then its replies.
Thread(pool, post) ==
    LET replies == RepliesTo(pool, post.id)
    IN  render_post(post, "")
            \o Flatten([i \in 1 .. Len(replies) |-> render_post(replies[i], ReplyMarker)])

\* render.py:94-122: the heading of a day and its threads.
DayBlock(plist, d) ==
    LET day_posts == DayPosts(plist, d)
        top_level == TopLevel(day_posts)
    IN  <<<<"day", d>>>>
            \o Flatten([i \in 1 .. Len(top_level) |->
                            Thread(ThreadPool(plist, day_posts), top_level[i])])

\* render.py:94: the days that have posts, in ascending order.
SortedDays(plist) ==
    LET days == {plist[i].day : i \in 1 .. Len(plist)}
    IN  [k \in 1 .. Cardinality(days) |->
            CHOOSE d \in days : Cardinality({e \in days : e <= d}) = k]

\* render_channel_markdown (render.py:52-124) on a channel with posts.
RenderedEntries(plist) ==
    LET days == SortedDays(plist)
    IN  Flatten([k \in 1 .. Len(days) |-> DayBlock(plist, days[k])])

\* cli.py:782-789, the posts of a channel are rendered.
RenderPosts ==
    /\ r_posts # <<>>
    /\ r_out = <<>>
    /\ r_out' = RenderedEntries(r_posts)
    /\ UNCHANGED <<r_posts, d_renders, d_digest, d_segments>>
    /\ UNCHANGED <<postVars, chanVars, userVars, mainVars>>

InitRender ==
    /\ PostsIdle /\ ChannelsIdle /\ UsersIdle /\ MainNotRun
    /\ d_renders = <<>>
    /\ d_digest = <<>>
    /\ d_segments = NotSplit
    /\ r_out = <<>>
    /\ \E n \in 1 .. MaxRenderPosts : r_posts \in PostLists(n)

SpecRender == InitRender /\ [][RenderPosts]_vars

(***************************************************************************)
(* Properties of the rendered threads.                                     *)
(***************************************************************************)

Rendered_ == r_out # <<>>
PostIds == 1 .. Len(r_posts)

\* The places in the rendering where the post with this id stands.
EntriesOf(id) ==
    {k \in 1 .. Len(r_out) : r_out[k][1] = "post" /\ r_out[k][2] = id}
EntryOf(id) == CHOOSE k \in EntriesOf(id) : TRUE

IsTopLevel(i) == r_posts[i].root_id = NoRoot
HasBody(i) == r_posts[i].body = "text"

\* Post i replies to a top-level post of the list that is of its own day.
RootOnSameDay(i) ==
    LET r == r_posts[i].root_id
    IN  /\ r \in PostIds
        /\ IsTopLevel(r)
        /\ r_posts[r].day = r_posts[i].day

C28_OrphanRepliesDropped ==
    Rendered_ =>
        \A i \in PostIds :
            /\ (~IsTopLevel(i) /\ ~RootOnSameDay(i)) => EntriesOf(i) = {}
            /\ (IsTopLevel(i) /\ HasBody(i)) =>
                    /\ Cardinality(EntriesOf(i)) = 1
                    /\ r_out[EntryOf(i)][3] = ""

\* A reply on the day after its root's, with a body: both days have their
\* heading, the reply is not rendered.
C28_Witness ==
    /\ Len(r_posts) = 2
    /\ IsTopLevel(1) /\ HasBody(1) /\ r_posts[1].day = 1
    /\ r_posts[2].root_id = 1 /\ HasBody(2) /\ r_posts[2].day = 2
    /\ r_out = <<<<"day", 1>>, <<"post", 1, "">>, <<"day", 2>>>>

\* C29: a post whose message is empty once the lines of white space are
\* gone has no entry in the rendering, and the replies to such a top-level
\* post on its day are rendered all the same, with the reply marker.
C29_EmptyBodyKeepsItsThread ==
    Rendered_ =>
        \A i \in PostIds :
            /\ ~HasBody(i) => EntriesOf(i) = {}
            /\ (HasBody(i) /\ RootOnSameDay(i) /\ ~HasBody(r_posts[i].root_id)) =>
                    \E k \in EntriesOf(i) : r_out[k][3] = "reply"

\* A top-level post without a body and a reply to it: only the reply is
\* rendered.
C29_Witness ==
    /\ Len(r_posts) = 2
    /\ IsTopLevel(1) /\ ~HasBody(1)
    /\ r_posts[2].root_id = 1 /\ HasBody(2) /\ r_posts[2].day = r_posts[1].day
    /\ r_out = <<<<"day", r_posts[1].day>>, <<"post", 2, "reply">>>>

====
